---- MODULE Spec2Model ----
(***************************************************************************)
(* Model of the commit classification and version bump engine of          *)
(* bump-workspaces (src/util.ts, src/mod.ts).                              *)
(*                                                                         *)
(* Representation of strings:                                              *)
(*  - a module name or scope is the sequence of its "/"-separated          *)
(*    segments: "@scope/foo" is <<"@scope", "foo">>, "foo" is <<"foo">>;   *)
(*  - a semver string is the record its parse yields,                      *)
(*    [major, minor, patch, pre]; pre = 0 is "no prerelease" and pre = k   *)
(*    (k > 0) is the prerelease "rc.k" ("1.0.0-rc.2" has pre = 2);         *)
(*  - a commit subject is the record of the groups RE_DEFAULT_PATTERN      *)
(*    captures, with the scope group already split on commas.              *)
(***************************************************************************)
EXTENDS Integers, Sequences, FiniteSets, TLC

VARIABLES
    pc,            \* position in bumpWorkspaces (or in a direct call)
    commits,       \* the commits read from git log, in log order
    ci,            \* number of commits the commit loop has visited
    modules,       \* current WorkspaceModule[] (version is mutated)
    oldModules,    \* WorkspaceModule[] read at the start ref
    versionBumps,  \* accepted VersionBump[]
    diagnostics,   \* accumulated Diagnostic[]
    summaries,     \* VersionBumpSummary[] (version is mutated)
    si,            \* number of summaries the update loop has visited
    updates,       \* Record<string, VersionUpdateResult>, insertion order
    dryRun,        \* the dryRun option: "false", "true" or "git"
    importMapJson, \* text of the import map, rewritten module by module
    files,         \* the writes of module deno.json files, in order
    arg,           \* arguments of a direct call of a function
    ret,           \* value returned by that call
    options,       \* the publishing options of the run and its credentials
    git,           \* the repository: the branch checked out and the tags
    ops            \* what the run did outside its memory, in order

vars == <<pc, commits, ci, modules, oldModules, versionBumps, diagnostics,
          summaries, si, updates, dryRun, importMapJson, files, arg, ret,
          options, git, ops>>

publishVars == <<options, git, ops>>

(***************************************************************************)
(* Bounds                                                                  *)
(***************************************************************************)
MaxCommits == 2   \* commits in the log range of a run
MaxIntents == 3   \* intents passed to a direct call of the aggregator
MaxField == 2     \* largest major / minor / patch number drawn as input
MaxPre == 1       \* largest prerelease counter drawn as input
MaxScopes == 2    \* scopes in the scope list of a directly classified subject
MaxRefs == 1      \* references in the import map besides the module's own

(***************************************************************************)
(* Helpers on sequences                                                    *)
(***************************************************************************)
Range(s) == {s[i] : i \in 1..Len(s)}

RECURSIVE Flatten(_)
Flatten(ss) == IF ss = <<>> THEN <<>> ELSE Head(ss) \o Flatten(Tail(ss))

\* Array.prototype.indexOf: 0-based position of the first occurrence, -1 if absent
IndexOf(s, x) ==
    IF \E i \in 1..Len(s) : s[i] = x
    THEN (CHOOSE i \in 1..Len(s) : s[i] = x /\ \A j \in 1..(i-1) : s[j] # x) - 1
    ELSE -1

(***************************************************************************)
(* Semantic versions (@std/semver parse / increment / format)              *)
(***************************************************************************)
SemVer(ma, mi, pa, pr) == [major |-> ma, minor |-> mi, patch |-> pa, pre |-> pr]

ZeroVersion == SemVer(0, 0, 0, 0)   \* the literal "0.0.0"

hasPrerelease(version) == version.pre > 0

\* increment with a minor bump that keeps the patch number
increment_KeepsPatch(version, release) ==
    CASE release = "major" -> SemVer(version.major + 1, 0, 0, 0)
      [] release = "minor" -> SemVer(version.major, version.minor + 1, version.patch, 0)
      [] release = "patch" -> SemVer(version.major, version.minor, version.patch + 1, 0)
      [] release = "prerelease" ->
           SemVer(version.major, version.minor, version.patch, version.pre + 1)

\* increment(version, release) of @std/semver
increment(version, release) ==
    CASE release = "major" ->
           IF hasPrerelease(version) /\ version.minor = 0 /\ version.patch = 0
           THEN SemVer(version.major, 0, 0, 0)
           ELSE SemVer(version.major + 1, 0, 0, 0)
      [] release = "minor" ->
           IF hasPrerelease(version) /\ version.patch = 0
           THEN SemVer(version.major, version.minor, 0, 0)
           ELSE SemVer(version.major, version.minor + 1, 0, 0)
      [] release = "patch" ->
           IF hasPrerelease(version)
           THEN SemVer(version.major, version.minor, version.patch, 0)
           ELSE SemVer(version.major, version.minor, version.patch + 1, 0)
      [] release = "prerelease" /\ hasPrerelease(version) ->
           \* bumpPrerelease: "rc.1" becomes "rc.2"; the numbers stay
           SemVer(version.major, version.minor, version.patch, version.pre + 1)

Throw == "throw"   \* calcVersionDiff raised "Unexpected manual version update"

\* calcVersionDiff with the patch comparison ahead of the minor comparison
calcVersionDiff_PatchFirst(newVersion, oldVersion) ==
    IF hasPrerelease(newVersion) THEN "prerelease"
    ELSE IF newVersion.major # oldVersion.major THEN "major"
    ELSE IF newVersion.patch # oldVersion.patch THEN "patch"
    ELSE IF newVersion.minor # oldVersion.minor THEN "minor"
    ELSE IF hasPrerelease(oldVersion)
         THEN IF newVersion.minor # 0 THEN "minor"
              ELSE IF newVersion.major # 0 THEN "major"
              ELSE Throw
    ELSE Throw

\* calcVersionDiff that falls back to "patch" where the code raises
calcVersionDiff_FallbackPatch(newVersion, oldVersion) ==
    IF hasPrerelease(newVersion) THEN "prerelease"
    ELSE IF newVersion.major # oldVersion.major THEN "major"
    ELSE IF newVersion.minor # oldVersion.minor THEN "minor"
    ELSE IF newVersion.patch # oldVersion.patch THEN "patch"
    ELSE IF hasPrerelease(oldVersion) /\ newVersion.minor # 0 /\ newVersion.patch = 0
         THEN "minor"
    ELSE IF hasPrerelease(oldVersion) /\ newVersion.major # 0 /\ newVersion.patch = 0
         THEN "major"
    ELSE "patch"

calcVersionDiff(newVersion, oldVersion) ==
    IF hasPrerelease(newVersion) THEN "prerelease"
    ELSE IF newVersion.major # oldVersion.major THEN "major"
    ELSE IF newVersion.minor # oldVersion.minor THEN "minor"
    ELSE IF newVersion.patch # oldVersion.patch THEN "patch"
    ELSE IF hasPrerelease(oldVersion) /\ ~hasPrerelease(newVersion)
            /\ newVersion.major = oldVersion.major
            /\ newVersion.minor = oldVersion.minor
            /\ newVersion.patch = oldVersion.patch
         THEN IF newVersion.patch # 0 THEN "patch"
              ELSE IF newVersion.minor # 0 THEN "minor"
              ELSE IF newVersion.major # 0 THEN "major"
              ELSE Throw
    ELSE Throw

(***************************************************************************)
(* Module names                                                            *)
(***************************************************************************)
Star == <<"*">>             \* the scope "*"
Unstable == "unstable"

\* m.name.endsWith(`/${module}`): the segments of module are a proper suffix
\* of the segments of name
endsWithSlash(name, module) ==
    /\ Len(module) > 0
    /\ Len(name) > Len(module)
    /\ SubSeq(name, Len(name) - Len(module) + 1, Len(name)) = module

\* Code-unit order of the segments that occur in the model ("@" is 0x40,
\* below every letter). No segment is a prefix of another, so comparing names
\* segment by segment is the order of the JavaScript operator < on the joined
\* strings.
SegRank(seg) ==
    CASE seg = "@scope" -> 1
      [] seg = "bar" -> 2
      [] seg = "baz" -> 3
      [] seg = "foo" -> 4
      [] seg = Unstable -> 5

RECURSIVE NameLess(_, _)
NameLess(a, b) ==
    IF b = <<>> THEN FALSE
    ELSE IF a = <<>> THEN TRUE
    ELSE IF Head(a) = Head(b) THEN NameLess(Tail(a), Tail(b))
    ELSE SegRank(Head(a)) < SegRank(Head(b))

\* getModule: 1-based position of the first module that matches, 0 for undefined
getModule(module, mods) ==
    LET hit(i) == mods[i].name = module \/ endsWithSlash(mods[i].name, module)
    IN IF \E i \in 1..Len(mods) : hit(i)
       THEN CHOOSE i \in 1..Len(mods) : hit(i) /\ \A j \in 1..(i-1) : ~hit(j)
       ELSE 0

(***************************************************************************)
(* Tags                                                                    *)
(***************************************************************************)
TAG_PRIORITY ==
    <<"BREAKING", "feat", "deprecation", "fix", "perf", "docs", "style",
      "refactor", "test", "chore">>

Undefined == "undefined"

\* TAG_TO_VERSION with feat mapped to patch
TAG_TO_VERSION_FeatPatch(tag) ==
    CASE tag = "BREAKING" -> "major"
      [] tag \in {"feat", "deprecation", "fix", "perf", "docs", "style", "refactor",
                  "test", "chore"} -> "patch"
      [] OTHER -> Undefined

\* TAG_TO_VERSION that gives patch for a tag outside the table
TAG_TO_VERSION_DefaultPatch(tag) ==
    CASE tag = "BREAKING" -> "major"
      [] tag = "feat" -> "minor"
      [] OTHER -> "patch"

\* TAG_TO_VERSION[tag]
TAG_TO_VERSION(tag) ==
    CASE tag = "BREAKING" -> "major"
      [] tag = "feat" -> "minor"
      [] tag \in {"deprecation", "fix", "perf", "docs", "style", "refactor",
                  "test", "chore"} -> "patch"
      [] OTHER -> Undefined

\* DEFAULT_RANGE_REQUIRED without perf
DEFAULT_RANGE_REQUIRED_NoPerf == {"BREAKING", "feat", "fix", "deprecation"}

DEFAULT_RANGE_REQUIRED == {"BREAKING", "feat", "fix", "perf", "deprecation"}

(***************************************************************************)
(* Commit classifier                                                       *)
(***************************************************************************)
\* A commit is [hash, subject]; subject is
\*   [kind, tag, scope, bang]
\* kind "conv":    RE_DEFAULT_PATTERN matches; tag, scope (the scope group
\*                 split on commas, <<>> when the group is absent) and bang
\*                 (the "!" group) are its captures
\* kind "text":    RE_DEFAULT_PATTERN does not match
\* kind "version": the subject starts with a version number ("v1.2.3")
\* kind "release": the subject starts with "Release 1.2.3"
Subject(kind, tag, scope, bang) ==
    [kind |-> kind, tag |-> tag, scope |-> scope, bang |-> bang]

NoBumps == <<>>
NoDiagnostic == [type |-> "none", commit |-> 0, reason |-> ""]
Diagnostic(type, commit, reason) ==
    [type |-> type, commit |-> commit.hash, reason |-> reason]

\* matchUnstable that knows the form unstable/<x> only
matchUnstable_PrefixOnly(module) ==
    IF Len(module) > 1 /\ Head(module) = Unstable THEN Tail(module) ELSE <<>>

\* REGEXP_UNSTABLE_SCOPE.exec(module): the module the scope is rewritten to,
\* <<>> when it does not match. The first alternative (unstable/<x>) wins.
matchUnstable(module) ==
    IF Len(module) > 1 /\ Head(module) = Unstable THEN Tail(module)
    ELSE IF Len(module) > 1 /\ module[Len(module)] = Unstable
         THEN SubSeq(module, 1, Len(module) - 1)
    ELSE <<>>

VersionBump(module, tag, version, commit) ==
    [module |-> module, tag |-> tag, version |-> version, commit |-> commit.hash]

\* Returns [isArray, bumps, diagnostic]: VersionBump[] | Diagnostic
defaultParseCommitMessage(commit, workspaceModules) ==
    LET s == commit.subject
        diag(type, reason) ==
            [isArray |-> FALSE, bumps |-> NoBumps,
             diagnostic |-> Diagnostic(type, commit, reason)]
        named == IF s.scope = <<Star>>
                 THEN [i \in 1..Len(workspaceModules) |-> workspaceModules[i].name]
                 ELSE s.scope
        mods == IF named = <<>> /\ Len(workspaceModules) = 1
                THEN <<workspaceModules[1].name>>
                ELSE named
        version == IF s.bang THEN "major" ELSE TAG_TO_VERSION(s.tag)
        bump(module) ==
            IF matchUnstable(module) # <<>>
            THEN VersionBump(matchUnstable(module), s.tag, "patch", commit)
            ELSE VersionBump(module, s.tag, version, commit)
    IN IF s.kind # "conv"
       THEN diag("unknown_commit", "no match")
       ELSE IF mods = <<>>
       THEN IF s.tag \in DEFAULT_RANGE_REQUIRED
            THEN diag("missing_range", "no module")
            ELSE diag("skipped_commit", "no module")
       ELSE IF version = Undefined
       THEN diag("unknown_commit", "unknown tag")
       ELSE [isArray |-> TRUE,
             bumps |-> [i \in 1..Len(mods) |-> bump(mods[i])],
             diagnostic |-> NoDiagnostic]

\* checkModuleName that accepts the full name of a module only
checkModuleName_ExactNameOnly(versionBump, mods) ==
    IF \E i \in 1..Len(mods) : mods[i].name = versionBump.module
    THEN NoDiagnostic
    ELSE [type |-> "unknown_range_commit", commit |-> versionBump.commit,
          reason |-> "unknown module"]

\* checkModuleName: the diagnostic, or NoDiagnostic for undefined
checkModuleName(versionBump, mods) ==
    IF getModule(versionBump.module, mods) # 0
    THEN NoDiagnostic
    ELSE [type |-> "unknown_range_commit", commit |-> versionBump.commit,
          reason |-> "unknown module"]

(***************************************************************************)
(* Bump aggregator                                                         *)
(***************************************************************************)
\* maxVersion that lets the later intent win
maxVersion_LastWins(v0, v1) == v1

maxVersion(v0, v1) ==
    IF v0 = "major" \/ v1 = "major" THEN "major"
    ELSE IF v0 = "minor" \/ v1 = "minor" THEN "minor"
    ELSE "patch"

CommitWithTag(versionBump) == [hash |-> versionBump.commit, tag |-> versionBump.tag]

\* collectSummaries that skips an intent whose commit is already in a summary
RECURSIVE collectSummaries_DedupByHash(_, _)
collectSummaries_DedupByHash(result, bumps) ==
    IF bumps = <<>> THEN result
    ELSE LET versionBump == Head(bumps)
             seen == \E i \in 1..Len(result) :
                        \E c \in Range(result[i].commits) : c.hash = versionBump.commit
             k == IF \E i \in 1..Len(result) : result[i].module = versionBump.module
                  THEN CHOOSE i \in 1..Len(result) : result[i].module = versionBump.module
                  ELSE 0
             summary == IF k = 0
                        THEN [module |-> versionBump.module,
                              version |-> versionBump.version,
                              commits |-> <<>>]
                        ELSE result[k]
             updated == [summary EXCEPT
                           !.version = maxVersion(summary.version, versionBump.version),
                           !.commits = Append(summary.commits, CommitWithTag(versionBump))]
         IN collectSummaries_DedupByHash(
                IF seen THEN result
                ELSE IF k = 0 THEN Append(result, updated)
                ELSE [result EXCEPT ![k] = updated],
                Tail(bumps))

\* The first loop of summarizeVersionBumpsByModule: result is the object
\* keyed by module, as the sequence of its values in insertion order.
RECURSIVE collectSummaries(_, _)
collectSummaries(result, bumps) ==
    IF bumps = <<>> THEN result
    ELSE LET versionBump == Head(bumps)
             k == IF \E i \in 1..Len(result) : result[i].module = versionBump.module
                  THEN CHOOSE i \in 1..Len(result) : result[i].module = versionBump.module
                  ELSE 0
             summary == IF k = 0
                        THEN [module |-> versionBump.module,
                              version |-> versionBump.version,
                              commits |-> <<>>]
                        ELSE result[k]
             updated == [summary EXCEPT
                           !.version = maxVersion(summary.version, versionBump.version),
                           !.commits = Append(summary.commits, CommitWithTag(versionBump))]
         IN collectSummaries(IF k = 0 THEN Append(result, updated)
                                      ELSE [result EXCEPT ![k] = updated],
                             Tail(bumps))

tagPriority(tag) == IndexOf(TAG_PRIORITY, tag)

\* summary.commits.sort(...): Array.prototype.sort is stable, the comparator
\* orders by tagPriority ascending: the commits of the lowest priority first,
\* each group in its input order.
sortCommits(cs) ==
    Flatten([p \in 1..(Len(TAG_PRIORITY) + 1) |->
                SelectSeq(cs, LAMBDA c : tagPriority(c.tag) = p - 2)])

\* sortByModule that leaves the summaries in insertion order
sortByModule_InsertionOrder(ss) == ss

\* sortByModule with the comparator reversed
RECURSIVE sortByModule_Descending(_)
sortByModule_Descending(ss) ==
    IF ss = <<>> THEN <<>>
    ELSE LET m == CHOOSE i \in 1..Len(ss) :
                     \A j \in 1..Len(ss) : j = i \/ NameLess(ss[j].module, ss[i].module)
         IN <<ss[m]>> \o sortByModule_Descending(SubSeq(ss, 1, m - 1)
                                                   \o SubSeq(ss, m + 1, Len(ss)))

\* Object.values(result).sort((a, b) => a.module < b.module ? -1 : 1)
RECURSIVE sortByModule(_)
sortByModule(ss) ==
    IF ss = <<>> THEN <<>>
    ELSE LET m == CHOOSE i \in 1..Len(ss) :
                     \A j \in 1..Len(ss) : j = i \/ NameLess(ss[i].module, ss[j].module)
         IN <<ss[m]>> \o sortByModule(SubSeq(ss, 1, m - 1) \o SubSeq(ss, m + 1, Len(ss)))

summarizeVersionBumpsByModule(bumps) ==
    LET result == collectSummaries(<<>>, bumps)
    IN sortByModule([i \in 1..Len(result) |->
                        [result[i] EXCEPT !.commits = sortCommits(result[i].commits)]])

(***************************************************************************)
(* Version resolver                                                        *)
(***************************************************************************)
\* The text of the import map (or of the root deno.json) is the record of
\* what applyVersionBump can rewrite in it:
\*   imports: the references `<name>@<range><version>`, range being "" or a
\*            one-character range operator;
\*   version: the `"version": "<version>"` fields, in text order.
ImportRef(name, range, version) == [name |-> name, range |-> range, version |-> version]

\* The text `${name}@` occurs at the end of a reference name that is name or
\* ends with "/" + name
refNameMatches(refName, name) == refName = name \/ endsWithSlash(refName, name)

\* currentVersionStr occurs at the start of the version text: with the same
\* numbers, and either no prerelease in currentVersionStr or the same one
versionStartsWith(version, current) ==
    /\ version.major = current.major
    /\ version.minor = current.minor
    /\ version.patch = current.patch
    /\ hasPrerelease(current) => version.pre = current.pre

\* denoJson.replace(new RegExp(`${module.name}@([^~]?)${currentVersionStr}`, "g"),
\*                  `${module.name}@$1${newVersionStr}`)
replaceReferences(imports, name, current, new) ==
    [i \in 1..Len(imports) |->
        IF /\ refNameMatches(imports[i].name, name)
           /\ imports[i].range # "~"
           /\ versionStartsWith(imports[i].version, current)
        THEN [imports[i] EXCEPT
                !.version = IF hasPrerelease(current) THEN new
                            ELSE SemVer(new.major, new.minor, new.patch, @.pre)]
        ELSE imports[i]]

\* if (denoJson.includes(`"version": "${currentVersionStr}"`)):
\* String.prototype.replace with a string pattern replaces the first occurrence
replaceVersionField(fields, current, new) ==
    IF \E i \in 1..Len(fields) : fields[i] = current
    THEN LET k == CHOOSE i \in 1..Len(fields) :
                     fields[i] = current /\ \A j \in 1..(i-1) : fields[j] # current
         IN [fields EXCEPT ![k] = new]
    ELSE fields

\* updateResult that returns the summary as it was passed in
updateResult_KeepsSummary(from, to, diff, summary, module, version, denoJson, wrote) ==
    [from |-> from, to |-> to, diff |-> diff, summary |-> summary,
     path |-> module.path, version |-> version, denoJson |-> denoJson,
     wrote |-> wrote]

\* The value of applyVersionBump: the VersionUpdateResult (from, to, diff,
\* summary, path), the returned denoJson, version = module.version as the
\* call leaves it, and wrote = the module's deno.json was written. diff is
\* Throw when calcVersionDiff raised (nothing was assigned then).
updateResult(from, to, diff, summary, module, version, denoJson, wrote) ==
    [from |-> from, to |-> to, diff |-> diff,
     summary |-> IF diff = Throw THEN summary ELSE [summary EXCEPT !.version = diff],
     path |-> module.path, version |-> version, denoJson |-> denoJson,
     wrote |-> wrote]

\* newModuleUpdate that reports the current version as the starting point
newModuleUpdate_FromCurrent(summary, module, denoJson) ==
    updateResult(module.version, module.version,
                 calcVersionDiff(module.version, ZeroVersion),
                 summary, module, module.version, denoJson, FALSE)

\* if (!oldModule): the module is newly added
newModuleUpdate(summary, module, denoJson) ==
    updateResult(ZeroVersion, module.version,
                 calcVersionDiff(module.version, ZeroVersion),
                 summary, module, module.version, denoJson, FALSE)

\* manualUpdate that keeps the aggregated severity as the diff
manualUpdate_KeepsSummary(summary, module, oldModule, denoJson) ==
    updateResult(oldModule.version, module.version, summary.version,
                 summary, module, module.version, denoJson, FALSE)

\* if (oldModule.version !== module.version): the version is manually updated
manualUpdate(summary, module, oldModule, denoJson) ==
    updateResult(oldModule.version, module.version,
                 calcVersionDiff(module.version, oldModule.version),
                 summary, module, module.version, denoJson, FALSE)

\* resolveDiff without the 0.x.y rule
resolveDiff_NoZeroRule(summaryVersion, currentVersion) ==
    IF hasPrerelease(currentVersion) THEN "prerelease" ELSE summaryVersion

\* resolveDiff that looks at the major number before the prerelease tag
resolveDiff_ZeroRuleFirst(summaryVersion, currentVersion) ==
    IF currentVersion.major = 0
    THEN IF summaryVersion = "major" THEN "minor"
         ELSE IF summaryVersion = "minor" THEN "patch"
         ELSE summaryVersion
    ELSE IF hasPrerelease(currentVersion) THEN "prerelease"
    ELSE summaryVersion

\* The bump type of a commit-derived update
resolveDiff(summaryVersion, currentVersion) ==
    IF hasPrerelease(currentVersion) THEN "prerelease"
    ELSE IF currentVersion.major = 0
         THEN IF summaryVersion = "major" THEN "minor"
              ELSE IF summaryVersion = "minor" THEN "patch"
              ELSE summaryVersion
    ELSE summaryVersion

\* commitUpdate that writes the module's deno.json in a dry run too
commitUpdate_AlwaysWrites(summary, module, denoJson, isDryRun) ==
    LET currentVersion == module.version
        diff == resolveDiff(summary.version, currentVersion)
        newVersion == increment(currentVersion, diff)
        newJson == [imports |-> replaceReferences(denoJson.imports, module.name,
                                                  currentVersion, newVersion),
                    version |-> replaceVersionField(denoJson.version,
                                                    currentVersion, newVersion)]
    IN updateResult(currentVersion, newVersion, diff, summary, module, newVersion,
                    newJson, TRUE)

\* The version is bumped from the commits: module.version is assigned, the
\* module's deno.json is written unless dryRun, and the references to the
\* module in denoJson are rewritten
commitUpdate(summary, module, denoJson, isDryRun) ==
    LET currentVersion == module.version
        diff == resolveDiff(summary.version, currentVersion)
        newVersion == increment(currentVersion, diff)
        newJson == [imports |-> replaceReferences(denoJson.imports, module.name,
                                                  currentVersion, newVersion),
                    version |-> replaceVersionField(denoJson.version,
                                                    currentVersion, newVersion)]
    IN updateResult(currentVersion, newVersion, diff, summary, module, newVersion,
                    newJson, ~isDryRun)

\* applyVersionBump(summary, module, oldModule, denoJson, dryRun): oldModule
\* is <<>> for undefined and <<m>> for a module record, isDryRun the dryRun
\* parameter
applyVersionBump(summary, module, oldModule, denoJson, isDryRun) ==
    IF oldModule = <<>> THEN newModuleUpdate(summary, module, denoJson)
    ELSE IF oldModule[1].version # module.version
         THEN manualUpdate(summary, module, oldModule[1], denoJson)
    ELSE commitUpdate(summary, module, denoJson, isDryRun)

(***************************************************************************)
(* Inputs of a run                                                         *)
(***************************************************************************)
WorkspaceModule(name, version, path) ==
    [name |-> name, version |-> version, path |-> path]

FooName == <<"@scope", "foo">>
BarName == <<"@scope", "bar">>

\* Versions the first module of a run is at
RunVersions == {SemVer(1, 0, 0, 0), SemVer(1, 0, 0, 1), ZeroVersion}

\* The version a manually edited module had at the start ref
EditedFrom == SemVer(0, 0, 0, 1)

\* Current module lists: a workspace of two packages, or a single package
ModuleLists ==
    {<<WorkspaceModule(FooName, v, "foo/deno.json"),
       WorkspaceModule(BarName, SemVer(0, 1, 0, 0), "bar/deno.json")>> : v \in RunVersions}
    \cup {<<WorkspaceModule(<<"foo">>, v, "deno.json")>> : v \in RunVersions}

\* Module lists at the start ref: unchanged, the first module edited by hand
\* since, or the first module not there yet
OldModuleLists(mods) ==
    {mods, [mods EXCEPT ![1].version = EditedFrom], Tail(mods)}

Scopes ==
    [none |-> <<>>, star |-> <<Star>>, foo |-> <<<<"foo">>>>,
     fooBaz |-> <<<<"foo">>, <<"baz">>>>,
     unstableFoo |-> <<<<Unstable, "foo">>>>]

\* Subjects of the commits of a run
SubjectPool ==
    {Subject("conv", "feat", Scopes.foo, FALSE),
     Subject("conv", "fix", Scopes.foo, FALSE),
     Subject("conv", "fix", Scopes.star, FALSE),
     Subject("conv", "feat", Scopes.star, TRUE),
     Subject("conv", "wip", Scopes.foo, TRUE),
     Subject("conv", "wip", Scopes.star, FALSE),
     Subject("conv", "fix", Scopes.none, FALSE),
     Subject("conv", "docs", Scopes.none, FALSE),
     Subject("conv", "fix", Scopes.fooBaz, FALSE),
     Subject("conv", "BREAKING", Scopes.unstableFoo, FALSE),
     Subject("text", "", Scopes.none, FALSE),
     Subject("version", "", Scopes.none, FALSE),
     Subject("release", "", Scopes.none, FALSE)}

\* The import map of a run: the root deno.json, which refers to every
\* workspace package with a caret range and, for a single package, holds
\* the package's own version field
ImportMapOf(mods) ==
    IF Len(mods) = 1
    THEN [imports |-> <<>>, version |-> <<mods[1].version>>]
    ELSE [imports |-> [i \in 1..Len(mods) |-> ImportRef(mods[i].name, "^", mods[i].version)],
          version |-> <<>>]

NoJson == [imports |-> <<>>, version |-> <<>>]

DryRunOptions == {"false", "true", "git"}

SeqsUpTo(S, n) == UNION {[1..k -> S] : k \in 0..n}

\* git log yields distinct hashes: the hash of a commit is its position
CommitLists ==
    {[i \in 1..Len(ss) |-> [hash |-> i, subject |-> ss[i]]] :
        ss \in SeqsUpTo(SubjectPool, MaxCommits)}

NoArg == [fn |-> "none"]
NoRet == [diff |-> "none"]

\* The options of bumpWorkspaces that createPullRequest reads, with their
\* defaults; unset names the one of gitUserName, gitUserEmail, githubToken,
\* githubRepo that neither the option nor the environment gives ("none" when
\* all four are set)
PublishOptions(gitTag, individualTags, individualReleaseNotes, unset) ==
    [gitTag |-> gitTag, individualTags |-> individualTags,
     individualReleaseNotes |-> individualReleaseNotes, unset |-> unset]

DefaultOptions == PublishOptions(FALSE, FALSE, FALSE, "none")

\* The repository as the run finds it: on the base branch, without tags
CleanRepo == [branch |-> "main", tags |-> {}]

(***************************************************************************)
(* bumpWorkspaces                                                          *)
(***************************************************************************)
Init ==
    /\ pc = "commits"
    /\ commits \in CommitLists
    /\ ci = 0
    /\ modules \in ModuleLists
    /\ oldModules \in OldModuleLists(modules)
    /\ versionBumps = <<>>
    /\ diagnostics = <<>>
    /\ summaries = <<>>
    /\ si = 0
    /\ updates = <<>>
    /\ dryRun \in DryRunOptions
    /\ importMapJson = NoJson
    /\ files = <<>>
    /\ arg = NoArg
    /\ ret = NoRet
    /\ options = DefaultOptions
    /\ git = CleanRepo
    /\ ops = <<>>

\* What one iteration of the commit loop appends to versionBumps and to
\* diagnostics
RECURSIVE acceptedBumps(_, _)
acceptedBumps(parsed, mods) ==
    IF parsed = <<>> THEN <<>>
    ELSE (IF checkModuleName(Head(parsed), mods) = NoDiagnostic
          THEN <<Head(parsed)>> ELSE <<>>) \o acceptedBumps(Tail(parsed), mods)

\* rejectedBumps that drops the intents of unknown modules without a diagnostic
rejectedBumps_Dropped(parsed, mods) == <<>>

RECURSIVE rejectedBumps(_, _)
rejectedBumps(parsed, mods) ==
    IF parsed = <<>> THEN <<>>
    ELSE (IF checkModuleName(Head(parsed), mods) = NoDiagnostic
          THEN <<>> ELSE <<checkModuleName(Head(parsed), mods)>>)
         \o rejectedBumps(Tail(parsed), mods)

\* One iteration of `for (const commit of commits)`
LoopCommit ==
    /\ pc = "commits"
    /\ ci < Len(commits)
    /\ LET commit == commits[ci + 1]
           parsed == defaultParseCommitMessage(commit, modules)
       IN IF commit.subject.kind \in {"version", "release"}
          THEN UNCHANGED <<versionBumps, diagnostics>>
          ELSE IF parsed.isArray
          THEN /\ versionBumps' = versionBumps \o acceptedBumps(parsed.bumps, modules)
               /\ diagnostics' = diagnostics \o rejectedBumps(parsed.bumps, modules)
          ELSE /\ diagnostics' = Append(diagnostics, parsed.diagnostic)
               /\ UNCHANGED versionBumps
    /\ ci' = ci + 1
    /\ UNCHANGED <<pc, commits, modules, oldModules, summaries, si, updates,
                   dryRun, importMapJson, files, arg, ret>>
    /\ UNCHANGED publishVars

\* After the loop: summarize, return when there is nothing to bump, else
\* read the import map
Summarize ==
    /\ pc = "commits"
    /\ ci = Len(commits)
    /\ summaries' = summarizeVersionBumpsByModule(versionBumps)
    /\ IF Len(summaries') = 0
       THEN pc' = "done" /\ UNCHANGED importMapJson
       ELSE pc' = "updates" /\ importMapJson' = ImportMapOf(modules)
    /\ UNCHANGED <<commits, ci, modules, oldModules, versionBumps, diagnostics,
                   si, updates, dryRun, files, arg, ret>>
    /\ UNCHANGED publishVars

\* updates[module.name] = versionUpdate: a key that exists keeps its place
setUpdate(ups, name, versionUpdate) ==
    LET entry == [name |-> name, update |-> versionUpdate]
    IN IF \E i \in 1..Len(ups) : ups[i].name = name
       THEN [i \in 1..Len(ups) |-> IF ups[i].name = name THEN entry ELSE ups[i]]
       ELSE Append(ups, entry)

VersionUpdateResult(r) ==
    [from |-> r.from, to |-> r.to, diff |-> r.diff, summary |-> r.summary,
     path |-> r.path]

\* One iteration of `for (const summary of summaries)`
UpdateModule ==
    /\ pc = "updates"
    /\ si < Len(summaries)
    /\ LET summary == summaries[si + 1]
           m == getModule(summary.module, modules)
           o == getModule(summary.module, oldModules)
           oldModule == IF o = 0 THEN <<>> ELSE <<oldModules[o]>>
           r == applyVersionBump(summary, modules[m], oldModule, importMapJson,
                                 dryRun = "true")
       IN IF r.diff = Throw
          THEN /\ pc' = "error"
               /\ UNCHANGED <<modules, summaries, si, updates, importMapJson, files>>
          ELSE /\ modules' = [modules EXCEPT ![m].version = r.version]
               /\ summaries' = [summaries EXCEPT ![si + 1] = r.summary]
               /\ updates' = setUpdate(updates, modules[m].name, VersionUpdateResult(r))
               /\ importMapJson' = r.denoJson
               /\ files' = IF r.wrote
                           THEN Append(files, [path |-> r.path, version |-> r.version])
                           ELSE files
               /\ si' = si + 1
               /\ pc' = pc
    /\ UNCHANGED <<commits, ci, oldModules, versionBumps, diagnostics, dryRun,
                   arg, ret>>
    /\ UNCHANGED publishVars

\* After the loop: the table of updates and the diagnostics are printed
ReportUpdates ==
    /\ pc = "updates"
    /\ si = Len(summaries)
    /\ pc' = "updated"
    /\ UNCHANGED <<commits, ci, modules, oldModules, versionBumps, diagnostics,
                   summaries, si, updates, dryRun, importMapJson, files, arg, ret>>
    /\ UNCHANGED publishVars

Next == LoopCommit \/ Summarize \/ UpdateModule \/ ReportUpdates

Spec == Init /\ [][Next]_vars

(***************************************************************************)
(* createPullRequest                                                       *)
(***************************************************************************)
Root == "."   \* the root option, where the root deno.json and Releases.md are

\* isSinglePackage (mod.ts): one module, whose deno.json is the root config
isSinglePackage(mods) == Len(mods) = 1 /\ mods[1].path = "deno.json"

\* getPackageDir(module, root): the directory of the module's deno.json
getPackageDir(module) ==
    CASE module.path = "foo/deno.json" -> "foo"
      [] module.path = "bar/deno.json" -> "bar"
      [] OTHER -> Root

\* now, as the fields of Date the run reads in UTC (getUTCMonth is 0-based)
Now == [year |-> 2024, month |-> 0, date |-> 5]

\* n.toString().padStart(2, "0") for n < 100: the two digits
padStart2(n) == <<n \div 10, n % 10>>

\* createReleaseTitle(d): `${year}.${month}.${date}`, the month of the year
\* and the day of the month padded to two digits
createReleaseTitle(d) == <<d.year, padStart2(d.month + 1), padStart2(d.date)>>

\* A release note: the type of its context and the directory of its file
\* (join(dir, releaseNotePath))
Note(type, dir) == [type |-> type, dir |-> dir]

\* releaseNotes that adds the workspace-level note to the individual ones
releaseNotes_WorkspaceNoteToo(ups, mods, individualReleaseNotes) ==
    IF isSinglePackage(mods)
    THEN IF Len(ups) > 0 THEN <<Note("single-package", Root)>> ELSE <<>>
    ELSE IF individualReleaseNotes
    THEN <<Note("workspace", Root)>>
         \o [i \in 1..Len(ups) |->
                Note("individual-package",
                     getPackageDir(mods[getModule(ups[i].summary.module, mods)]))]
    ELSE <<Note("workspace", Root)>>

\* The release notes createPullRequest builds: workspaceReleaseNote first,
\* then packageReleaseNotes
releaseNotes(ups, mods, individualReleaseNotes) ==
    IF isSinglePackage(mods)
    THEN IF Len(ups) > 0 THEN <<Note("single-package", Root)>> ELSE <<>>
    ELSE IF individualReleaseNotes
    THEN [i \in 1..Len(ups) |->
             Note("individual-package",
                  getPackageDir(mods[getModule(ups[i].summary.module, mods)]))]
    ELSE <<Note("workspace", Root)>>

\* A tag name: "v" is `v<label>`, "module" is `<module>@<label>`, "release"
\* is `release-<label>`
Tag(scheme, module, label) == [scheme |-> scheme, module |-> module, label |-> label]

\* tagNames that names the tag of a single package after the package
tagNames_SingleAsModule(ups, mods, individualTags, now) ==
    IF individualTags \/ isSinglePackage(mods)
    THEN [i \in 1..Len(ups) |->
             Tag("module", mods[getModule(ups[i].summary.module, mods)].name, ups[i].to)]
    ELSE <<Tag("release", <<>>, createReleaseTitle(now))>>

\* The tag names of a run, in the order the run goes through them
tagNames(ups, mods, individualTags, now) ==
    IF individualTags /\ ~isSinglePackage(mods)
    THEN [i \in 1..Len(ups) |->
             Tag("module", mods[getModule(ups[i].summary.module, mods)].name, ups[i].to)]
    ELSE IF isSinglePackage(mods)
    THEN [i \in 1..Len(ups) |-> Tag("v", <<>>, ups[i].to)]
    ELSE <<Tag("release", <<>>, createReleaseTitle(now))>>

\* One thing the run does outside its memory: op is "write" (a file), "show"
\* (a release note printed in a dry run), "announceTag" (a tag name printed
\* in a dry run), "branch", "commit", "tag", "skipTag", "push" or "pr"
Op(op, kind, name) == [op |-> op, kind |-> kind, name |-> name]

\* The try/catch around `git rev-parse <tagName>` for each tag name: a tag
\* that exists is skipped, another one is created
RECURSIVE tagOps(_, _)
tagOps(names, existing) ==
    IF names = <<>> THEN <<>>
    ELSE IF Head(names) \in existing
         THEN <<Op("skipTag", "tag", Head(names))>> \o tagOps(Tail(names), existing)
    ELSE <<Op("tag", "tag", Head(names))>>
         \o tagOps(Tail(names), existing \cup {Head(names)})

\* credentialsMissing that looks at the token only
credentialsMissing_TokenOnly(opts) == opts.unset = "githubToken"

\* One of the four `=== undefined` tests holds
credentialsMissing(opts) == opts.unset # "none"

\* gitSteps that tags the checked-out commit before committing
gitSteps_TagsBeforeCommit(tags, gitTag) ==
    <<Op("branch", "git", "release")>>
    \o (IF gitTag THEN tags ELSE <<>>)
    \o <<Op("commit", "git", "release"),
         Op("push", "git", IF gitTag THEN "--tags" ELSE ""),
         Op("pr", "github", "release")>>

\* The git and GitHub steps of a run that is no dry run
gitSteps(tags, gitTag) ==
    <<Op("branch", "git", "release"), Op("commit", "git", "release")>>
    \o (IF gitTag THEN tags ELSE <<>>)
    \o <<Op("push", "git", IF gitTag THEN "--tags" ELSE ""),
         Op("pr", "github", "release")>>

\* The import map, then the release notes, are written
fileWrites(notes) ==
    <<Op("write", "importMap", Root)>>
    \o [i \in 1..Len(notes) |-> Op("write", notes[i].type, notes[i].dir)]

\* What a dry run prints instead
dryRunReport(notes, names, gitTag) ==
    [i \in 1..Len(notes) |-> Op("show", notes[i].type, notes[i].dir)]
    \o (IF gitTag THEN [i \in 1..Len(names) |-> Op("announceTag", "tag", names[i])]
        ELSE <<>>)

\* createPullRequest: what it does, in order, whether it ends in
\* Deno.exit(1), and the tags of the repository afterwards
createPullRequest(ups, mods, isDryRun, opts, existing) ==
    LET notes == releaseNotes(ups, mods, opts.individualReleaseNotes)
        names == tagNames(ups, mods, opts.individualTags, Now)
        tags == tagOps(names, existing)
    IN IF isDryRun = "true"
       THEN [ops |-> dryRunReport(notes, names, opts.gitTag), exit |-> FALSE,
             branched |-> FALSE, tags |-> existing]
       ELSE IF isDryRun = "false"
       THEN IF credentialsMissing(opts)
            THEN [ops |-> fileWrites(notes), exit |-> TRUE, branched |-> FALSE,
                  tags |-> existing]
            ELSE [ops |-> fileWrites(notes) \o gitSteps(tags, opts.gitTag),
                  exit |-> FALSE, branched |-> TRUE,
                  tags |-> IF opts.gitTag THEN existing \cup Range(names) ELSE existing]
       ELSE [ops |-> fileWrites(notes), exit |-> FALSE, branched |-> FALSE,
             tags |-> existing]

\* `await createPullRequest({updates: Object.values(updates), ...})`
CreatePullRequest ==
    /\ pc = "updated"
    /\ LET r == createPullRequest([i \in 1..Len(updates) |-> updates[i].update],
                                  modules, dryRun, options, git.tags)
       IN /\ ops' = ops \o r.ops
          /\ git' = [branch |-> IF r.branched THEN "release" ELSE git.branch,
                     tags |-> r.tags]
          /\ pc' = IF r.exit THEN "exit" ELSE "finished"
    /\ UNCHANGED <<commits, ci, modules, oldModules, versionBumps, diagnostics,
                   summaries, si, updates, dryRun, importMapJson, files, arg, ret,
                   options>>

\* Runs of bumpWorkspaces through createPullRequest, with every combination
\* of the publishing options, with and without the tags of the run already
\* in the repository
RunSubjects ==
    {Subject("conv", "fix", Scopes.star, FALSE),
     Subject("conv", "feat", Scopes.foo, FALSE),
     Subject("text", "", Scopes.none, FALSE)}

RunCommitLists ==
    {<<>>} \cup {<<[hash |-> 1, subject |-> s]>> : s \in RunSubjects}

OptionSets ==
    {PublishOptions(t, i, n, u) :
        t \in BOOLEAN, i \in BOOLEAN, n \in BOOLEAN,
        u \in {"none", "gitUserName", "gitUserEmail", "githubToken", "githubRepo"}}

TaggedRepo ==
    [branch |-> "main",
     tags |-> {Tag("release", <<>>, createReleaseTitle(Now)),
               Tag("v", <<>>, SemVer(1, 0, 1, 0)),
               Tag("module", BarName, SemVer(0, 1, 1, 0))}]

InitRun ==
    /\ pc = "commits"
    /\ commits \in RunCommitLists
    /\ ci = 0
    /\ modules \in ModuleLists
    /\ oldModules \in OldModuleLists(modules)
    /\ versionBumps = <<>>
    /\ diagnostics = <<>>
    /\ summaries = <<>>
    /\ si = 0
    /\ updates = <<>>
    /\ dryRun \in DryRunOptions
    /\ importMapJson = NoJson
    /\ files = <<>>
    /\ arg = NoArg
    /\ ret = NoRet
    /\ options \in OptionSets
    /\ git \in {CleanRepo, TaggedRepo}
    /\ ops = <<>>

NextRun == LoopCommit \/ Summarize \/ UpdateModule \/ ReportUpdates \/ CreatePullRequest

SpecRun == InitRun /\ [][NextRun]_vars

(***************************************************************************)
(* withGitContext                                                          *)
(***************************************************************************)
\* What getCurrentGitBranch can return: the branch, or "unknown" from its
\* catch
BranchReadings(branch) == {branch, "unknown"}

\* captureGitState: null when `git status --porcelain` fails, else the
\* GitState with the branch as getCurrentGitBranch read it
captureGitState(reading, statusFails) ==
    IF statusFails THEN Op("capture", "null", "")
    ELSE Op("capture", "state", reading)

\* restoreGitState whose failed checkout escapes
restoreGitState_Rethrows(state, reading, branch, checkoutFails) ==
    IF reading # state.name
    THEN IF checkoutFails \/ state.name = "unknown"
         THEN [ops |-> <<Op("restore", "called", state.name),
                         Op("checkout", "failed", state.name)>>,
               branch |-> branch, threw |-> TRUE]
         ELSE [ops |-> <<Op("restore", "called", state.name),
                         Op("checkout", "done", state.name)>>,
               branch |-> state.name, threw |-> FALSE]
    ELSE [ops |-> <<Op("restore", "called", state.name)>>,
          branch |-> branch, threw |-> FALSE]

\* restoreGitState(state): `git checkout <state.branch>` when the branch
\* read now differs from it; the whole body is inside try/catch, so a
\* failed checkout leaves the branch and does not throw
restoreGitState(state, reading, branch, checkoutFails) ==
    IF reading # state.name
    THEN IF checkoutFails \/ state.name = "unknown"
         THEN [ops |-> <<Op("restore", "called", state.name),
                         Op("checkout", "failed", state.name)>>,
               branch |-> branch, threw |-> FALSE]
         ELSE [ops |-> <<Op("restore", "called", state.name),
                         Op("checkout", "done", state.name)>>,
               branch |-> state.name, threw |-> FALSE]
    ELSE [ops |-> <<Op("restore", "called", state.name)>>,
          branch |-> branch, threw |-> FALSE]

CallbackValues == {"value", "other value"}

\* A callback: it returns or throws value, after checking out a branch
\* (checkout = "" when it stays on the branch)
Callbacks ==
    [outcome : {"return", "throw"}, value : CallbackValues,
     checkout : {"", "release"}]

\* const initialState = await captureGitState(options)
CaptureGitState ==
    /\ pc = "capture"
    /\ \E reading \in BranchReadings(git.branch) :
          ops' = ops \o <<captureGitState(reading, arg.statusFails)>>
    /\ pc' = "callback"
    /\ UNCHANGED <<commits, ci, modules, oldModules, versionBumps, diagnostics,
                   summaries, si, updates, dryRun, importMapJson, files, arg, ret,
                   options, git>>

\* `return await callback()`, outside try/finally when there is no initial
\* state and inside it otherwise
RunCallback ==
    /\ pc = "callback"
    /\ ops' = ops \o <<Op("callback", arg.callback.outcome, arg.callback.value)>>
    /\ git' = IF arg.callback.checkout = "" THEN git
              ELSE [git EXCEPT !.branch = arg.callback.checkout]
    /\ ret' = [outcome |-> arg.callback.outcome, value |-> arg.callback.value]
    /\ pc' = IF ops[1].kind = "null"
             THEN IF arg.callback.outcome = "return" THEN "returned" ELSE "thrown"
             ELSE "restore"
    /\ UNCHANGED <<commits, ci, modules, oldModules, versionBumps, diagnostics,
                   summaries, si, updates, dryRun, importMapJson, files, arg,
                   options>>

\* finally { await restoreGitState(initialState, options) }: the pending
\* return or throw of the callback completes unless the finally block throws
RestoreGitState ==
    /\ pc = "restore"
    /\ \E reading \in BranchReadings(git.branch) :
          LET r == restoreGitState(ops[1], reading, git.branch, arg.checkoutFails)
          IN /\ ops' = ops \o r.ops
             /\ git' = [git EXCEPT !.branch = r.branch]
             /\ ret' = IF r.threw THEN [outcome |-> "throw", value |-> "checkout"]
                       ELSE ret
             /\ pc' = IF r.threw \/ ret.outcome = "throw" THEN "thrown"
                      ELSE "returned"
    /\ UNCHANGED <<commits, ci, modules, oldModules, versionBumps, diagnostics,
                   summaries, si, updates, dryRun, importMapJson, files, arg,
                   options>>

\* Calls of withGitContext on a branch, with git working or failing
InitGit ==
    /\ pc = "capture"
    /\ commits = <<>> /\ ci = 0
    /\ modules = <<>> /\ oldModules = <<>>
    /\ versionBumps = <<>> /\ diagnostics = <<>>
    /\ summaries = <<>> /\ si = 0
    /\ updates = <<>>
    /\ dryRun = "false"
    /\ importMapJson = NoJson
    /\ files = <<>>
    /\ arg \in [fn : {"withGitContext"}, callback : Callbacks,
                statusFails : BOOLEAN, checkoutFails : BOOLEAN]
    /\ ret = NoRet
    /\ options = DefaultOptions
    /\ git \in {CleanRepo, [CleanRepo EXCEPT !.branch = "release"]}
    /\ ops = <<>>

NextGit == CaptureGitState \/ RunCallback \/ RestoreGitState

SpecGit == InitGit /\ [][NextGit]_vars

(***************************************************************************)
(* Direct calls of the exported functions                                  *)
(***************************************************************************)
Versions ==
    {SemVer(ma, mi, pa, pr) :
        ma \in 0..MaxField, mi \in 0..MaxField, pa \in 0..MaxField, pr \in 0..MaxPre}

BumpKinds == {"major", "minor", "patch"}

Idle ==
    /\ commits = <<>> /\ ci = 0 /\ modules = <<>> /\ oldModules = <<>>
    /\ versionBumps = <<>> /\ diagnostics = <<>> /\ summaries = <<>>
    /\ si = 0 /\ updates = <<>> /\ dryRun = "false" /\ importMapJson = NoJson
    /\ options = DefaultOptions /\ git = CleanRepo /\ ops = <<>>

pipelineVars ==
    <<commits, ci, modules, oldModules, versionBumps, diagnostics, summaries,
      si, updates, dryRun, importMapJson, options, git, ops>>

\* applyVersionBump(summary, module, oldModule, denoJson, dryRun)
InitResolve ==
    /\ pc = "call"
    /\ Idle
    /\ arg \in {[fn |-> "applyVersionBump",
                 summary |-> [module |-> <<"foo">>, version |-> k, commits |-> <<>>],
                 module |-> WorkspaceModule(FooName, v, "foo/deno.json"),
                 oldModule |-> o,
                 denoJson |-> [imports |-> <<ImportRef(FooName, "^", v),
                                             ImportRef(BarName, "^", SemVer(1, 0, 0, 0))>>,
                               version |-> <<>>],
                 dryRun |-> d] :
                  k \in BumpKinds, v \in Versions, d \in BOOLEAN,
                  o \in {<<>>} \cup {<<WorkspaceModule(FooName, w, "foo/deno.json")>> :
                                        w \in Versions}}
    /\ files = <<>>
    /\ ret = NoRet

CallApplyVersionBump ==
    /\ pc = "call"
    /\ arg.fn = "applyVersionBump"
    /\ ret' = applyVersionBump(arg.summary, arg.module, arg.oldModule,
                                arg.denoJson, arg.dryRun)
    /\ files' = IF ret'.diff # Throw /\ ret'.wrote
                THEN Append(files, [path |-> ret'.path, version |-> ret'.version])
                ELSE files
    /\ pc' = "returned"
    /\ UNCHANGED <<arg, pipelineVars>>

SpecResolve == InitResolve /\ [][CallApplyVersionBump]_vars

\* calcVersionDiff(newVersionStr, oldVersionStr)
InitDiff ==
    /\ pc = "call"
    /\ Idle
    /\ arg \in {[fn |-> "calcVersionDiff", newVersion |-> n, oldVersion |-> o] :
                  n \in Versions, o \in Versions}
    /\ files = <<>>
    /\ ret = NoRet

CallCalcVersionDiff ==
    /\ pc = "call"
    /\ arg.fn = "calcVersionDiff"
    /\ ret' = [diff |-> calcVersionDiff(arg.newVersion, arg.oldVersion)]
    /\ pc' = "returned"
    /\ UNCHANGED <<arg, files, pipelineVars>>

SpecDiff == InitDiff /\ [][CallCalcVersionDiff]_vars

\* summarizeVersionBumpsByModule(versionBumps): the tag and version pairs
\* are those the classifier produces, for two modules; the hash of an intent's
\* commit is its position
IntentKinds ==
    {<<"BREAKING", "major">>, <<"feat", "minor">>, <<"fix", "patch">>,
     <<"fix", "major">>, <<"wip", "major">>}

IntentLists ==
    {[i \in 1..Len(l) |->
        [module |-> l[i][1], tag |-> l[i][2][1], version |-> l[i][2][2], commit |-> i]] :
        l \in SeqsUpTo({<<"foo">>, <<"bar">>} \X IntentKinds, MaxIntents)}

InitSummarize ==
    /\ pc = "call"
    /\ Idle
    /\ arg \in {[fn |-> "summarizeVersionBumpsByModule", versionBumps |-> l] :
                  l \in IntentLists}
    /\ files = <<>>
    /\ ret = NoRet

CallSummarize ==
    /\ pc = "call"
    /\ arg.fn = "summarizeVersionBumpsByModule"
    /\ ret' = [summaries |-> summarizeVersionBumpsByModule(arg.versionBumps)]
    /\ pc' = "returned"
    /\ UNCHANGED <<arg, files, pipelineVars>>

SpecSummarize == InitSummarize /\ [][CallSummarize]_vars

\* defaultParseCommitMessage(commit, workspaceModules): the subject has each
\* of the ten tags or a tag outside the table, no scope, the scope "*" or a
\* list of scopes, with or without "!"; or it does not match the pattern
ParseTags == Range(TAG_PRIORITY) \cup {"wip"}

ScopeNames == {<<"foo">>, <<"baz">>, <<Unstable, "foo">>, <<"foo", Unstable>>}

ScopeGroups == {<<>>, <<Star>>} \cup (SeqsUpTo(ScopeNames, MaxScopes) \ {<<>>})

UnstableName == <<"@scope", Unstable>>

\* Workspaces the subject is classified against: two packages, one package,
\* and two packages of which one is named @scope/unstable
ParseModuleLists ==
    {<<WorkspaceModule(FooName, SemVer(1, 0, 0, 0), "foo/deno.json"),
       WorkspaceModule(BarName, SemVer(1, 0, 0, 0), "bar/deno.json")>>,
     <<WorkspaceModule(<<"foo">>, SemVer(1, 0, 0, 0), "deno.json")>>,
     <<WorkspaceModule(FooName, SemVer(1, 0, 0, 0), "foo/deno.json"),
       WorkspaceModule(UnstableName, SemVer(1, 0, 0, 0), "unstable/deno.json")>>}

ParseSubjects ==
    {Subject("conv", t, g, b) : t \in ParseTags, g \in ScopeGroups, b \in BOOLEAN}
    \cup {Subject("text", "", <<>>, FALSE)}

InitParse ==
    /\ pc = "call"
    /\ Idle
    /\ arg \in {[fn |-> "defaultParseCommitMessage",
                 commit |-> [hash |-> 1, subject |-> s],
                 workspaceModules |-> wm] :
                  s \in ParseSubjects, wm \in ParseModuleLists}
    /\ files = <<>>
    /\ ret = NoRet

CallParse ==
    /\ pc = "call"
    /\ arg.fn = "defaultParseCommitMessage"
    /\ ret' = defaultParseCommitMessage(arg.commit, arg.workspaceModules)
    /\ pc' = "returned"
    /\ UNCHANGED <<arg, files, pipelineVars>>

SpecParse == InitParse /\ [][CallParse]_vars

\* applyVersionBump against import maps that refer to the module itself, to
\* another package of the workspace and to a package of another scope whose
\* name ends like the module's, with and without range operators
RewriteVersions == {SemVer(1, 0, 0, 0), SemVer(1, 0, 0, 1), SemVer(0, 1, 0, 0)}

OtherFooName == <<"@other", "foo">>

RewriteRefs ==
    {ImportRef(n, r, v) :
        n \in {FooName, BarName, OtherFooName}, r \in {"", "^", "~"},
        v \in RewriteVersions \cup {SemVer(2, 0, 0, 0)}}

InitRewrite ==
    /\ pc = "call"
    /\ Idle
    /\ arg \in {[fn |-> "applyVersionBump",
                 summary |-> [module |-> <<"foo">>, version |-> k, commits |-> <<>>],
                 module |-> WorkspaceModule(n, v, "foo/deno.json"),
                 oldModule |-> IF o = "new" THEN <<>>
                               ELSE <<WorkspaceModule(n, IF o = "same" THEN v ELSE EditedFrom,
                                                      "foo/deno.json")>>,
                 denoJson |-> [imports |-> <<ImportRef(n, "^", v)>> \o refs,
                               version |-> IF f THEN <<v>> ELSE <<>>],
                 dryRun |-> d] :
                  k \in BumpKinds, n \in {FooName, <<"foo">>}, v \in RewriteVersions,
                  d \in BOOLEAN, refs \in SeqsUpTo(RewriteRefs, MaxRefs),
                  f \in BOOLEAN, o \in {"new", "same", "edited"}}
    /\ files = <<>>
    /\ ret = NoRet

SpecRewrite == InitRewrite /\ [][CallApplyVersionBump]_vars

(***************************************************************************)
(* Properties                                                              *)
(***************************************************************************)
Rank(v) == CASE v = "patch" -> 1 [] v = "minor" -> 2 [] v = "major" -> 3

\* The greatest of a non-empty set of bump kinds under patch < minor < major
MaxSeverity(S) == CHOOSE v \in S : \A w \in S : Rank(w) <= Rank(v)

\* Positions of the accepted intents whose scope resolves to module m
intentsOf(m) ==
    {i \in 1..Len(versionBumps) : getModule(versionBumps[i].module, modules) = m}

summariesOf(m) ==
    {k \in 1..Len(summaries) : getModule(summaries[k].module, modules) = m}

\* C1: in a run, every module targeted by an accepted intent gets exactly
\* one summary, hence exactly one version update, and the summary handed to
\* the resolver carries the maximum severity over all the accepted intents
\* that resolve to the module, whether they name it in short or in full.
C1_OneUpdateWithMaxSeverity ==
    pc \in {"updates", "updated"} =>
        \A m \in 1..Len(modules) :
            intentsOf(m) # {} =>
                /\ Cardinality(summariesOf(m)) = 1
                /\ \A k \in summariesOf(m) :
                      k > si => summaries[k].version =
                                  MaxSeverity({versionBumps[i].version : i \in intentsOf(m)})

Returned(fn) == pc = "returned" /\ arg.fn = fn

bumpsOfModule(bumps, module) == SelectSeq(bumps, LAMBDA b : b.module = module)

\* C2: the aggregator returns one summary per distinct module string of the
\* intents, whose version is the maximum of the versions of the intents of
\* that module under patch < minor < major, and never "prerelease".
C2_SummaryPerModuleMaxVersion ==
    Returned("summarizeVersionBumpsByModule") =>
        LET bumps == arg.versionBumps
            names == {bumps[i].module : i \in 1..Len(bumps)}
            result == ret.summaries
        IN /\ Len(result) = Cardinality(names)
           /\ {result[k].module : k \in 1..Len(result)} = names
           /\ \A k \in 1..Len(result) :
                 /\ result[k].version =
                      MaxSeverity({b.version : b \in Range(bumpsOfModule(bumps, result[k].module))})
                 /\ result[k].version # "prerelease"

C2_Witness ==
    /\ Returned("summarizeVersionBumpsByModule")
    /\ Len(ret.summaries) = 2
    /\ \E k \in 1..2 :
          /\ ret.summaries[k].version = "minor"
          /\ Len(ret.summaries[k].commits) = 2

\* The priority the tag table gives a tag when absent tags come last
tablePriority(tag) ==
    IF tagPriority(tag) < 0 THEN Len(TAG_PRIORITY) ELSE tagPriority(tag)

\* C3: in every summary the commits are in the order of the tag table, the
\* commits whose tag is absent from the table after all the others, and
\* commits of equal priority in their input order.
C3_CommitsInTableOrderUnknownLast ==
    Returned("summarizeVersionBumpsByModule") =>
        \A k \in 1..Len(ret.summaries) :
            LET cs == ret.summaries[k].commits
            IN \A i, j \in 1..Len(cs) :
                  i < j =>
                     /\ tablePriority(cs[i].tag) <= tablePriority(cs[j].tag)
                     /\ tablePriority(cs[i].tag) = tablePriority(cs[j].tag)
                          => cs[i].hash < cs[j].hash

permutationsOf(l) ==
    {[i \in 1..Len(l) |-> l[f[i]]] : f \in {g \in [1..Len(l) -> 1..Len(l)] :
                                              \A a, b \in 1..Len(l) : g[a] = g[b] => a = b}}

\* C4 as stated: every permutation of the intents yields the identical
\* result, the commit order inside each summary included.
C4_PermutationSameResult ==
    Returned("summarizeVersionBumpsByModule") =>
        \A p \in permutationsOf(arg.versionBumps) :
            summarizeVersionBumpsByModule(p) = ret.summaries

\* C4 (amended): every permutation of the intents yields the same modules in
\* the same order, the same version per module, the same commits per module,
\* and the same tag priority at every position of a summary's commits: only
\* commits of equal tag priority may change places.
C4_PermutationSameUpToTies ==
    Returned("summarizeVersionBumpsByModule") =>
        \A p \in permutationsOf(arg.versionBumps) :
            LET r == summarizeVersionBumpsByModule(p)
                s == ret.summaries
            IN /\ Len(r) = Len(s)
               /\ \A k \in 1..Len(s) :
                     /\ r[k].module = s[k].module
                     /\ r[k].version = s[k].version
                     /\ Len(r[k].commits) = Len(s[k].commits)
                     /\ Range(r[k].commits) = Range(s[k].commits)
                     /\ \A i \in 1..Len(s[k].commits) :
                           tagPriority(r[k].commits[i].tag) =
                             tagPriority(s[k].commits[i].tag)

C4_Witness ==
    /\ Returned("summarizeVersionBumpsByModule")
    /\ Len(ret.summaries) = 2
    /\ \E p \in permutationsOf(arg.versionBumps) :
          /\ p[1].module # arg.versionBumps[1].module
          /\ summarizeVersionBumpsByModule(p) # ret.summaries

C3_Witness ==
    /\ Returned("summarizeVersionBumpsByModule")
    /\ \E k \in 1..Len(ret.summaries) :
          LET cs == ret.summaries[k].commits
          IN /\ Len(cs) = 2
             /\ tagPriority(cs[1].tag) < 0
             /\ tagPriority(cs[2].tag) >= 0
             /\ cs[2].hash < cs[1].hash

\* The module of a direct call of applyVersionBump was not edited by hand:
\* a previous record exists and has the current version
Unedited == arg.oldModule # <<>> /\ arg.oldModule[1].version = arg.module.version

\* C5: for an unedited module at 0.y.z without prerelease, an aggregated
\* major resolves to minor (0.y.z -> 0.(y+1).0), an aggregated minor to patch
\* and a patch stays patch (0.y.z -> 0.y.(z+1)); from is the current version.
C5_ZeroMajorDowngrade ==
    (/\ Returned("applyVersionBump")
     /\ Unedited
     /\ arg.module.version.major = 0
     /\ arg.module.version.pre = 0) =>
        LET v == arg.module.version
            k == arg.summary.version
        IN /\ ret.from = v
           /\ k = "major" => /\ ret.diff = "minor"
                             /\ ret.to = SemVer(0, v.minor + 1, 0, 0)
           /\ k \in {"minor", "patch"} => /\ ret.diff = "patch"
                                          /\ ret.to = SemVer(0, v.minor, v.patch + 1, 0)

C5_Witness ==
    /\ Returned("applyVersionBump")
    /\ Unedited
    /\ arg.module.version = ZeroVersion
    /\ arg.summary.version = "major"
    /\ ret.diff = "minor"
    /\ ret.to = SemVer(0, 1, 0, 0)

\* C6: when the current version has a prerelease suffix, the diff of the
\* result is "prerelease" for every aggregated severity and in every case of
\* the resolver (new module, manual edit, commit-derived).
C6_PrereleaseAlwaysPrerelease ==
    (Returned("applyVersionBump") /\ arg.module.version.pre > 0) =>
        ret.diff = "prerelease"

C6_Witness ==
    /\ Returned("applyVersionBump")
    /\ arg.module.version.pre > 0
    /\ arg.oldModule # <<>>
    /\ arg.oldModule[1].version.pre = 0
    /\ arg.oldModule[1].version.major # arg.module.version.major
    /\ arg.summary.version = "major"
    /\ ret.diff = "prerelease"

\* C7: when a previous record exists and its version differs from the
\* current one, the result is from = previous version, to = current version
\* (no increment) and diff = calcVersionDiff(current, previous), whatever the
\* aggregated severity; the call raises exactly when calcVersionDiff does.
C7_ManualEditTrusted ==
    (/\ Returned("applyVersionBump")
     /\ arg.oldModule # <<>>
     /\ arg.oldModule[1].version # arg.module.version) =>
        /\ ret.diff = calcVersionDiff(arg.module.version, arg.oldModule[1].version)
        /\ ret.from = arg.oldModule[1].version
        /\ ret.to = arg.module.version
        /\ ret.version = arg.module.version

C7_Witness ==
    /\ Returned("applyVersionBump")
    /\ arg.oldModule # <<>>
    /\ arg.oldModule[1].version = SemVer(1, 0, 0, 0)
    /\ arg.module.version = SemVer(1, 1, 0, 0)
    /\ arg.summary.version = "major"
    /\ ret.diff = "minor"
    /\ ret.to = SemVer(1, 1, 0, 0)

\* C8: for a new module (no previous record) the result is from = 0.0.0,
\* to = the current version unchanged and diff = calcVersionDiff(current,
\* 0.0.0), whatever the aggregated severity.
C8_NewModule ==
    (Returned("applyVersionBump") /\ arg.oldModule = <<>>) =>
        /\ ret.diff = calcVersionDiff(arg.module.version, ZeroVersion)
        /\ ret.from = ZeroVersion
        /\ ret.to = arg.module.version
        /\ ret.version = arg.module.version

C8_Witness ==
    /\ Returned("applyVersionBump")
    /\ arg.oldModule = <<>>
    /\ arg.module.version = SemVer(0, 1, 0, 0)
    /\ arg.summary.version = "major"
    /\ ret.diff = "minor"
    /\ ret.from = ZeroVersion
    /\ ret.to = SemVer(0, 1, 0, 0)

\* C9: for an unedited module at x.y.z with x >= 1 and no prerelease, the
\* result is from = the current version, diff = the aggregated severity
\* unchanged, and to = the semver increment of the current version by it:
\* major -> (x+1).0.0, minor -> x.(y+1).0, patch -> x.y.(z+1).
C9_StandardIncrement ==
    (/\ Returned("applyVersionBump")
     /\ Unedited
     /\ arg.module.version.major >= 1
     /\ arg.module.version.pre = 0) =>
        LET v == arg.module.version
            k == arg.summary.version
        IN /\ ret.from = v
           /\ ret.diff = k
           /\ k = "major" => ret.to = SemVer(v.major + 1, 0, 0, 0)
           /\ k = "minor" => ret.to = SemVer(v.major, v.minor + 1, 0, 0)
           /\ k = "patch" => ret.to = SemVer(v.major, v.minor, v.patch + 1, 0)

C9_Witness ==
    /\ Returned("applyVersionBump")
    /\ Unedited
    /\ arg.module.version = SemVer(1, 0, 0, 0)
    /\ arg.summary.version = "minor"
    /\ ret.diff = "minor"
    /\ ret.to = SemVer(1, 1, 0, 0)

\* C10: calcVersionDiff(new, old) is "prerelease" when new has a prerelease
\* component; else "major" when the majors differ; else "minor" when the
\* minors differ; else "patch" when the patches differ. So when neither has a
\* prerelease and exactly one numeric field increases (the others equal), the
\* result is the name of that field.
C10_FirstMatchClassification ==
    Returned("calcVersionDiff") =>
        LET n == arg.newVersion
            o == arg.oldVersion
        IN /\ n.pre > 0 => ret.diff = "prerelease"
           /\ (n.pre = 0 /\ n.major # o.major) => ret.diff = "major"
           /\ (n.pre = 0 /\ n.major = o.major /\ n.minor # o.minor) => ret.diff = "minor"
           /\ (n.pre = 0 /\ n.major = o.major /\ n.minor = o.minor /\ n.patch # o.patch)
                 => ret.diff = "patch"
           /\ (n.pre = 0 /\ o.pre = 0) =>
                 /\ (n.major > o.major /\ n.minor = o.minor /\ n.patch = o.patch)
                       => ret.diff = "major"
                 /\ (n.major = o.major /\ n.minor > o.minor /\ n.patch = o.patch)
                       => ret.diff = "minor"
                 /\ (n.major = o.major /\ n.minor = o.minor /\ n.patch > o.patch)
                       => ret.diff = "patch"

C10_Witness ==
    /\ Returned("calcVersionDiff")
    /\ arg.newVersion = SemVer(1, 1, 1, 0)
    /\ arg.oldVersion = SemVer(1, 0, 0, 1)
    /\ ret.diff = "minor"

\* C11: calcVersionDiff(v, v) raises for every version v without prerelease,
\* and applyVersionBump does not catch it: the one call of applyVersionBump
\* that compares a version with itself (a new module whose version is 0.0.0,
\* compared with the literal "0.0.0") raises too, leaving the summary as it
\* was and writing nothing.
C11_IdenticalVersionsRaise ==
    (/\ Returned("calcVersionDiff")
     /\ arg.newVersion = arg.oldVersion
     /\ arg.newVersion.pre = 0) =>
        /\ ret.diff = Throw
        /\ arg.newVersion = ZeroVersion =>
              \A k \in BumpKinds :
                 LET summary == [module |-> <<"foo">>, version |-> k, commits |-> <<>>]
                     r == applyVersionBump(summary,
                                           WorkspaceModule(FooName, arg.newVersion, "foo/deno.json"),
                                           <<>>, NoJson, FALSE)
                 IN r.diff = Throw /\ r.summary = summary /\ ~r.wrote

C11_Witness ==
    /\ Returned("calcVersionDiff")
    /\ arg.newVersion = SemVer(1, 2, 0, 0)
    /\ arg.oldVersion = SemVer(1, 2, 0, 0)
    /\ ret.diff = Throw

\* C12: when old has a prerelease, new has none and the three numbers are
\* equal, calcVersionDiff returns "patch" if patch # 0, else "minor" if
\* minor # 0, else "major", the pair 0.0.0-rc.k -> 0.0.0 included.
C12_FinalizePrerelease ==
    (/\ Returned("calcVersionDiff")
     /\ arg.oldVersion.pre > 0
     /\ arg.newVersion.pre = 0
     /\ arg.newVersion.major = arg.oldVersion.major
     /\ arg.newVersion.minor = arg.oldVersion.minor
     /\ arg.newVersion.patch = arg.oldVersion.patch) =>
        ret.diff = IF arg.newVersion.patch # 0 THEN "patch"
                   ELSE IF arg.newVersion.minor # 0 THEN "minor"
                   ELSE "major"

\* The subject of a direct call of the classifier matches the pattern
Classified == Returned("defaultParseCommitMessage") /\ arg.commit.subject.kind = "conv"

RecognizedTags ==
    {"BREAKING", "feat", "deprecation", "fix", "perf", "docs", "style", "refactor",
     "test", "chore"}

\* The severity table of the specification
tableVersion(tag) ==
    IF tag = "BREAKING" THEN "major" ELSE IF tag = "feat" THEN "minor" ELSE "patch"

\* The names a subject resolves to: every module for "*", the single module
\* for no scope in a single package, else the listed scopes
resolvedNames(subject, workspaceModules) ==
    IF subject.scope = <<Star>>
    THEN [i \in 1..Len(workspaceModules) |-> workspaceModules[i].name]
    ELSE IF subject.scope = <<>> /\ Len(workspaceModules) = 1
         THEN <<workspaceModules[1].name>>
    ELSE subject.scope

\* A name of the form unstable/<x> or <x>/unstable
unstableForm(name) ==
    Len(name) > 1 /\ (Head(name) = Unstable \/ name[Len(name)] = Unstable)

\* <x> of a name of the unstable form
stableName(name) ==
    IF Head(name) = Unstable THEN Tail(name) ELSE SubSeq(name, 1, Len(name) - 1)

C14_UnknownTagDiagnostic ==
    (Classified /\ arg.commit.subject.tag \notin RecognizedTags) =>
        /\ ~ret.isArray
        /\ ret.bumps = <<>>
        /\ ret.diagnostic.type = "unknown_commit"

\* C14 (amended): a subject that matches the pattern with a tag outside the
\* ten recognized tags, without "!" and resolving to at least one name (a
\* scope list, "*", or no scope in a single package) yields an unknown_commit
\* diagnostic and no intent.
C14_UnknownTagNoBangDiagnostic ==
    LET s == arg.commit.subject
    IN (/\ Classified
        /\ s.tag \notin RecognizedTags
        /\ ~s.bang
        /\ resolvedNames(s, arg.workspaceModules) # <<>>) =>
           /\ ~ret.isArray
           /\ ret.bumps = <<>>
           /\ ret.diagnostic.type = "unknown_commit"

C14_Witness ==
    /\ Classified
    /\ arg.commit.subject = Subject("conv", "wip", <<<<"foo">>>>, FALSE)
    /\ ~ret.isArray
    /\ ret.diagnostic.type = "unknown_commit"

\* What the classifier returns for a subject without scope in a workspace
\* that is not a single package
noScopeDiagnostic(tag) ==
    IF tag \in {"BREAKING", "feat", "fix", "perf", "deprecation"}
    THEN "missing_range" ELSE "skipped_commit"

C16_StarOneIntentPerModule ==
    LET s == arg.commit.subject
        wm == arg.workspaceModules
    IN (Classified /\ s.scope = <<Star>> /\ s.tag \in RecognizedTags) =>
          /\ ret.isArray
          /\ Len(ret.bumps) = Len(wm)
          /\ \A i \in 1..Len(ret.bumps) :
                /\ ret.bumps[i].module = wm[i].name
                /\ ret.bumps[i].tag = s.tag
                /\ ret.bumps[i].version = ret.bumps[1].version

RECURSIVE SumCommits(_)
SumCommits(ss) == IF ss = <<>> THEN 0 ELSE Len(Head(ss).commits) + SumCommits(Tail(ss))

C18_UnstableScopePatch ==
    LET s == arg.commit.subject
    IN (/\ Classified
        /\ s.scope # <<>> /\ s.scope # <<Star>>
        /\ s.bang \/ s.tag \in RecognizedTags) =>
           /\ ret.isArray
           /\ Len(ret.bumps) = Len(s.scope)
           /\ \A i \in 1..Len(s.scope) :
                 unstableForm(s.scope[i]) =>
                    /\ ret.bumps[i].module = stableName(s.scope[i])
                    /\ ret.bumps[i].version = "patch"

C18_Witness ==
    /\ Classified
    /\ arg.commit.subject = Subject("conv", "BREAKING", <<<<"foo", Unstable>>>>, TRUE)
    /\ ret.isArray
    /\ ret.bumps[1].module = <<"foo">>
    /\ ret.bumps[1].version = "patch"

\* The commit loop skips the commit at position i (a version bump or a
\* release commit)
skippedCommit(i) == commits[i].subject.kind \in {"version", "release"}

\* The intents the classifier produces for the commit at position i
intentsOfCommit(i) ==
    IF skippedCommit(i) THEN <<>>
    ELSE defaultParseCommitMessage(commits[i], modules).bumps

\* The name of an intent resolves in the current module set
resolves(versionBump) == getModule(versionBump.module, modules) # 0

\* C19: for every commit the loop has visited, the intents that resolve in
\* the current module set are the accepted intents of that commit, in order,
\* and each intent that does not resolve is one unknown_range_commit
\* diagnostic of that commit and is not accepted; so every accepted intent,
\* and every summary handed to the resolver, names a module of the set.
C19_UnknownModuleIntentReplaced ==
    /\ \A i \in 1..ci :
          /\ SelectSeq(versionBumps, LAMBDA b : b.commit = i)
                = SelectSeq(intentsOfCommit(i), resolves)
          /\ Len(SelectSeq(diagnostics,
                           LAMBDA d : d.type = "unknown_range_commit" /\ d.commit = i))
                = Len(SelectSeq(intentsOfCommit(i), LAMBDA b : ~resolves(b)))
    /\ \A j \in 1..Len(versionBumps) : resolves(versionBumps[j])
    /\ pc \in {"updates", "updated", "error"} =>
          /\ Len(summaries) > 0
          /\ \A k \in 1..Len(summaries) :
                /\ getModule(summaries[k].module, modules) # 0
                /\ \E j \in 1..Len(versionBumps) :
                      versionBumps[j].module = summaries[k].module

C19_Witness ==
    /\ pc = "updated"
    /\ Len(commits) = 1
    /\ commits[1].subject = Subject("conv", "fix", Scopes.fooBaz, FALSE)
    /\ Len(versionBumps) = 1
    /\ versionBumps[1].module = <<"foo">>
    /\ Len(diagnostics) = 1
    /\ diagnostics[1].type = "unknown_range_commit"
    /\ Len(summaries) = 1

\* The diagnostics one iteration of the commit loop yields for the commit at
\* position i, computed from that commit alone
diagnosticsOfCommit(i) ==
    LET parsed == defaultParseCommitMessage(commits[i], modules)
        unknown == SelectSeq(parsed.bumps, LAMBDA b : ~resolves(b))
    IN IF skippedCommit(i) THEN <<>>
       ELSE IF ~parsed.isArray THEN <<parsed.diagnostic>>
       ELSE [j \in 1..Len(unknown) |->
                [type |-> "unknown_range_commit", commit |-> unknown[j].commit,
                 reason |-> "unknown module"]]

\* C20: the loop visits every commit before the run goes on; the accepted
\* intents are, commit by commit and in order, the resolving intents of each
\* visited commit computed from that commit alone, whatever the other
\* commits and scopes yield; and the accumulated diagnostics are, in order,
\* the diagnostics of every visited commit, still all there when the updates
\* are reported.
C20_DiagnosticsNeverBlock ==
    /\ pc # "commits" => ci = Len(commits)
    /\ versionBumps =
          Flatten([i \in 1..ci |-> SelectSeq(intentsOfCommit(i), resolves)])
    /\ diagnostics = Flatten([i \in 1..ci |-> diagnosticsOfCommit(i)])

C20_Witness ==
    /\ pc = "updated"
    /\ Len(commits) = 2
    /\ commits[1].subject = Subject("conv", "fix", Scopes.fooBaz, FALSE)
    /\ commits[2].subject = Subject("conv", "feat", Scopes.foo, FALSE)
    /\ Len(diagnostics) = 1
    /\ diagnostics[1].commit = 1
    /\ Len(versionBumps) = 2
    /\ versionBumps[2].commit = 2

\* C21: the summaries the aggregator returns are in strictly ascending order
\* of module name, so no two of them share a module name.
C21_SummariesStrictlyAscending ==
    Returned("summarizeVersionBumpsByModule") =>
        \A k \in 1..(Len(ret.summaries) - 1) :
            NameLess(ret.summaries[k].module, ret.summaries[k + 1].module)

C21_Witness ==
    /\ Returned("summarizeVersionBumpsByModule")
    /\ Len(arg.versionBumps) = 3
    /\ arg.versionBumps[1].module = <<"foo">>
    /\ arg.versionBumps[2].module = <<"bar">>
    /\ arg.versionBumps[3].module = <<"foo">>
    /\ Len(ret.summaries) = 2
    /\ ret.summaries[1].module = <<"bar">>
    /\ ret.summaries[2].module = <<"foo">>

\* C29: in every result applyVersionBump returns, the diff equals the version
\* of the result's summary, which is the input summary with its aggregated
\* version overwritten, in the new-module, manual-edit and commit-derived
\* cases alike.
C29_DiffIsSummaryVersion ==
    (Returned("applyVersionBump") /\ ret.diff # Throw) =>
        /\ ret.summary.version = ret.diff
        /\ ret.summary.module = arg.summary.module
        /\ ret.summary.commits = arg.summary.commits

C29_Witness ==
    /\ Returned("applyVersionBump")
    /\ arg.oldModule = <<>>
    /\ arg.summary.version = "patch"
    /\ arg.module.version = SemVer(2, 0, 0, 0)
    /\ ret.diff = "major"
    /\ ret.summary.version = "major"

\* C30: a run that is not a dry run and aborts because resolving a module
\* raised has written no module manifest (the import map and the release
\* notes are written after the update loop, which the run never leaves).
C30_AbortLeavesNothingWritten ==
    (pc = "error" /\ dryRun # "true") => files = <<>>

\* C27: applyVersionBump for module M changes no reference of the import map
\* to another module: in the commit-derived case a reference changes only if
\* it is a reference to M at M's current version, and then to the new
\* version with its range operator kept; in the new-module and manual-edit
\* cases the import map is returned as it was and M's version stays.
C27_OnlyOwnReferencesRewritten ==
    (Returned("applyVersionBump") /\ ret.diff # Throw) =>
        LET old == arg.denoJson.imports
            new == ret.denoJson.imports
        IN IF Unedited
           THEN /\ Len(new) = Len(old)
                /\ \A i \in 1..Len(old) :
                      new[i] # old[i] =>
                         /\ old[i].name = arg.module.name
                         /\ old[i].version = arg.module.version
                         /\ new[i] = [old[i] EXCEPT !.version = ret.to]
           ELSE /\ ret.denoJson = arg.denoJson
                /\ ret.version = arg.module.version


(***************************************************************************)
(* Properties of the publishing step                                       *)
(***************************************************************************)
\* The positions of the log where the run did one of the things of kinds
Positions(log, kinds) == {i \in 1..Len(log) : log[i].op \in kinds}

GitOps == {"branch", "commit", "tag", "skipTag", "push", "pr"}

\* C22: in a run with dryRun === true no module manifest, import map or
\* release note is written and no branch, commit, tag, push or pull request
\* is made; the run only prints the release notes and the tag names.
C22_DryRunWritesNothing ==
    dryRun = "true" =>
        /\ files = <<>>
        /\ Positions(ops, {"write"} \cup GitOps) = {}
        /\ git.branch = "main"

C22_Witness ==
    /\ dryRun = "true" /\ pc = "finished"
    /\ Positions(ops, {"show"}) # {}
    /\ \E i \in 1..Len(updates) : updates[i].update.from # updates[i].update.to

\* The release notes a finished createPullRequest wrote or showed
notesOf(log) ==
    SelectSeq(log, LAMBDA o : o.op \in {"write", "show"} /\ o.kind # "importMap")

\* The directory of the deno.json at path
dirOf(path) == IF path = "foo/deno.json" THEN "foo"
               ELSE IF path = "bar/deno.json" THEN "bar" ELSE Root

tagsOf(log) ==
    LET sel == SelectSeq(log, LAMBDA o : o.op \in {"tag", "skipTag", "announceTag"})
    IN [i \in 1..Len(sel) |-> sel[i].name]

\* The run got as far as its tags
reachedTags ==
    /\ pc = "finished"
    /\ dryRun = "true" \/ (dryRun = "false" /\ options.unset = "none")

Terminated == pc \in {"done", "error", "finished", "exit"}

\* C25 as stated: every run with dryRun === false and one of the four
\* credentials unset ends in exit code 1 without a git or GitHub step.
C25_MissingCredentialAlwaysExits ==
    (dryRun = "false" /\ options.unset # "none" /\ Terminated) =>
        pc = "exit" /\ Positions(ops, GitOps) = {}

\* C25: a run with dryRun === false and one of the four credentials unset
\* that has version updates to publish ends in exit code 1 once it has
\* written the import map and the release notes, and makes no branch,
\* commit, tag, push or pull request.
C25_MissingCredentialExitsBeforeGit ==
    (dryRun = "false" /\ options.unset # "none") =>
        /\ pc # "finished"
        /\ Positions(ops, GitOps) = {}
        /\ git.branch = "main"
        /\ (pc = "exit") = (ops # <<>>)

C25_Witness ==
    /\ dryRun = "false" /\ options.unset = "gitUserEmail" /\ pc = "exit"
    /\ Positions(ops, {"write"}) # {}

\* C28: when createPullRequest finishes a run with dryRun === false, it has
\* written the import map and the release notes, then made the branch, the
\* commit, the tags (only with gitTag), the push and the pull request, in
\* this order; a tag that was in the repository is skipped and no other tag
\* is; with dryRun === "git" it has written the files and done nothing else.
C28_PublishingOrder ==
    [][(pc = "updated" /\ pc' = "finished" /\ dryRun # "true") =>
        LET log == ops'
            at(o) == CHOOSE i \in Positions(log, {o}) : TRUE
            tagged == Positions(log, {"tag", "skipTag"})
        IN /\ log[1].op = "write" /\ log[1].kind = "importMap"
           /\ Positions(log, {"show", "announceTag"}) = {}
           /\ IF dryRun = "git"
              THEN Positions(log, GitOps) = {} /\ git' = git
              ELSE /\ \A o \in {"branch", "commit", "push", "pr"} :
                         Cardinality(Positions(log, {o})) = 1
                   /\ \A w \in Positions(log, {"write"}) : w < at("branch")
                   /\ at("branch") < at("commit")
                   /\ at("commit") < at("push")
                   /\ at("push") < at("pr")
                   /\ (tagged # {}) = options.gitTag
                   /\ \A t \in tagged :
                         /\ at("commit") < t /\ t < at("push")
                         /\ (log[t].op = "skipTag") = (log[t].name \in git.tags)
                   /\ git'.tags = git.tags \cup {log[t].name : t \in tagged}
                   /\ git'.branch = "release"]_vars

C28_Witness ==
    /\ pc = "finished" /\ dryRun = "false" /\ options.gitTag
    /\ Positions(ops, {"skipTag"}) # {}
    /\ Positions(ops, {"tag"}) # {}
    /\ Positions(ops, {"pr"}) # {}


(***************************************************************************)
(* Properties of withGitContext                                            *)
(***************************************************************************)
Settled == pc \in {"returned", "thrown"}

\* C26: when withGitContext settles, the callback has run exactly once and
\* the call returns what the callback returned or throws what it threw,
\* also when the checkout of the restore failed; if the initial state was
\* captured, restoreGitState ran once, after the callback, for the captured
\* branch, whether the callback returned or threw; if it was not captured,
\* nothing was restored.
C26_CallbackOnceRestoreAfter ==
    Settled =>
        LET called == Positions(ops, {"callback"})
            restored == Positions(ops, {"restore"})
            checkouts == Positions(ops, {"checkout"})
        IN /\ Cardinality(called) = 1
           /\ ret = [outcome |-> arg.callback.outcome, value |-> arg.callback.value]
           /\ (pc = "returned") = (arg.callback.outcome = "return")
           /\ IF ops[1].kind = "state"
              THEN /\ Cardinality(restored) = 1
                   /\ \A c \in called : \A r \in restored :
                         c < r /\ ops[r].name = ops[1].name
                   /\ \A k \in checkouts :
                         /\ ops[k].name = ops[1].name
                         /\ \A r \in restored : r < k
                         /\ ops[k].kind = "done" => git.branch = ops[1].name
              ELSE restored = {} /\ checkouts = {}

C26_Witness ==
    /\ pc = "thrown" /\ ops[1].kind = "state"
    /\ arg.callback.checkout # "" /\ arg.callback.checkout # ops[1].name
    /\ \E k \in 1..Len(ops) : ops[k].op = "checkout" /\ ops[k].kind = "failed"

====
